---- MODULE Spec2Model ----
(***************************************************************************)
(* Access control, onboarding and moderation state of the alumni network   *)
(* application: the edge gate (middleware.ts), the page-level checks of    *)
(* the gated pages, the onboarding form and its profile upsert, and the    *)
(* external actors (session provider, profile store, moderating admin).    *)
(*                                                                         *)
(* Text is modelled as sequences of atomic tokens: a pathname is a         *)
(* sequence of Tokens whose concatenation is the pathname string, so that  *)
(* startsWith is the sequence-prefix relation.                             *)
(***************************************************************************)
EXTENDS Integers, Sequences, FiniteSets, TLC

VARIABLES profiles, session, nav, form, sub, dir, view, av, pv

vars == <<profiles, session, nav, form, sub, dir, view, av, pv>>

(***************************************************************************)
(* Bounds                                                                  *)
(***************************************************************************)
MaxPathLen == 3

MaxNameLen == 2

\* directory queries awaited at the same time
MaxInFlight == 1

\* rows of the public directory view
MaxRows == 41

\* redirects followed in a row by the browser
MaxHops == 4

(***************************************************************************)
(* Identities, rows of the profiles table                                  *)
(***************************************************************************)
None == "none"

Users == {"u1", "u2"}

GateUsers == {"u1"}

\* onboarded: boolean | null ; moderation_status: Moderation | null
OnboardedValues == {"true", "false", "null"}

ModerationValues == {"pending", "approved", "rejected", "null"}

\* avatar_url: the stored avatar reference, a text; no reference is the empty text
NoAvatar == <<>>

ProfileRows == [id : Users, onboarded : OnboardedValues, moderation_status : ModerationValues, avatar_url : {NoAvatar}]

\* the stores in which the primary key id is unique
Stores(us) == {s \in SUBSET {r \in ProfileRows : r.id \in us} : \A r1, r2 \in s : r1.id = r2.id => r1 = r2}

(***************************************************************************)
(* Pathnames and URLs                                                      *)
(***************************************************************************)
Tokens == {"/", "dashboard", "onboarding", "directory", "auth/login", "auth/signup", "auth/callback", "_next", "api", "static", "images", "favicon", "x"}

Pathnames == {p \in UNION {[1..n -> Tokens] : n \in 1..MaxPathLen} : p[1] = "/"}

P_root == <<"/">>

P_login == <<"/", "auth/login">>

P_signup == <<"/", "auth/signup">>

P_callback == <<"/", "auth/callback">>

P_dashboard == <<"/", "dashboard">>

P_onboarding == <<"/", "onboarding">>

P_directory == <<"/", "directory">>

\* String.prototype.startsWith
StartsWith(s, pre) == Len(s) >= Len(pre) /\ SubSeq(s, 1, Len(pre)) = pre

\* query strings: a sequence of key/value pairs, the values being pathnames
Param(k, v) == [k |-> k, v |-> v]

Searches == {<<>>, <<Param("ref", <<"x">>)>>, <<Param("redirect", <<"/", "x">>)>>, <<Param("code", <<"x">>)>>, <<Param("error", <<"x">>)>>}

Url(pathname, search) == [pathname |-> pathname, search |-> search]

RECURSIVE DropKey(_, _)
DropKey(search, k) ==
    IF search = <<>> THEN <<>>
    ELSE IF Head(search).k = k THEN DropKey(Tail(search), k)
         ELSE <<Head(search)>> \o DropKey(Tail(search), k)

RECURSIVE SearchParamsSet(_, _, _)
\* URLSearchParams.set: the first pair named k takes the value, the other
\* pairs named k are removed; appended when there is none
SearchParamsSet(search, k, v) ==
    IF search = <<>> THEN <<Param(k, v)>>
    ELSE IF Head(search).k = k THEN <<Param(k, v)>> \o DropKey(Tail(search), k)
         ELSE <<Head(search)>> \o SearchParamsSet(Tail(search), k, v)

\* URLSearchParams.get: the value of the first pair named k, as a set of at most one value
SearchParamsGet(search, k) ==
    LET idx == {i \in 1..Len(search) : search[i].k = k}
    IN  IF idx = {} THEN {} ELSE {search[CHOOSE i \in idx : \A j \in idx : i <= j].v}

(***************************************************************************)
(* middleware.ts: route sets and path classification                       *)
(***************************************************************************)
PUBLIC_ROUTES == {P_root, P_login, P_signup, P_callback}

AUTH_ONLY == {P_dashboard, P_onboarding, P_directory}

\* faulty variant: the directory is left out of the onboarding-required set
ONBOARDING_REQUIRED_DashboardOnly == {P_dashboard}

ONBOARDING_REQUIRED == {P_dashboard, P_directory}

APPROVAL_REQUIRED == {P_directory}

\* faulty variant: only the base paths themselves match, their sub-paths do not
startsWithOneOf_ExactOnly(pathname, bases) == pathname \in bases

startsWithOneOf(pathname, bases) ==
    \E b \in bases : pathname = b \/ StartsWith(pathname, b \o <<"/">>)

\* "Skip static/next internals quickly"
IsAsset(pathname) ==
    \/ StartsWith(pathname, <<"/", "_next">>)
    \/ StartsWith(pathname, <<"/", "api">>)
    \/ StartsWith(pathname, <<"/", "static">>)
    \/ StartsWith(pathname, <<"/", "images">>)
    \/ StartsWith(pathname, <<"/", "favicon">>)

\* faulty variant: the identity lookup runs before the public routes are let through
RequiresAuth_NoPublicExemption(pathname) == ~IsAsset(pathname)

\* the requests for which the gate awaits supabase.auth.getUser()
RequiresAuth(pathname) ==
    /\ ~IsAsset(pathname)
    /\ pathname \notin PUBLIC_ROUTES
    /\ startsWithOneOf(pathname, AUTH_ONLY)

(***************************************************************************)
(* Responses                                                               *)
(***************************************************************************)
ResNext == [kind |-> "next", url |-> Url(<<>>, <<>>)]

ResRedirect(url) == [kind |-> "redirect", url |-> url]

\* the outcome of supabase.auth.getUser(): a user, or an error and no user
AuthOk(u) == [user |-> u, error |-> FALSE]

AuthFail == [user |-> None, error |-> TRUE]

\* the lookup failed although the provider holds a session
Fault(a, s) == a.error /\ s # None

\* what the session provider can answer in the current state
AuthOutcomes(s) == IF s = None THEN {AuthFail} ELSE {AuthOk(s), AuthFail}

\* .from("profiles").select(..).eq("id", id).maybeSingle(): data is the row
\* or null; a failed read yields null data.  data is a set of at most one row.
ReadOk(d) == [data |-> d, error |-> FALSE]

ReadFail == [data |-> {}, error |-> TRUE]

ReadOutcomes(store, id) ==
    LET hit == {r \in store : r.id = id}
    IN  {IF Cardinality(hit) <= 1 THEN ReadOk(hit) ELSE ReadFail, ReadFail}

\* faulty variant: only a missing row counts, the flag is not looked at
NotOnboarded_RowOnly(data) == data = {}

\* !profile?.onboarded
NotOnboarded(data) == ~(\E r \in data : r.onboarded = "true")

\* faulty variant: only a rejected profile is held back
Approved_NotRejected(data) == \E r \in data : r.moderation_status # "rejected"

\* profile?.moderation_status === "approved"
Approved(data) == \E r \in data : r.moderation_status = "approved"

\* middleware, lines 80-85: the reply to a failed identity lookup
LoginRedirect(url) ==
    ResRedirect(Url(P_login, SearchParamsSet(url.search, "redirect", url.pathname)))

\* faulty variant: the approval check runs before the onboarding check
AfterProfile_ApprovalFirst(url, data) ==
    IF startsWithOneOf(url.pathname, APPROVAL_REQUIRED) /\ ~Approved(data)
    THEN ResRedirect(Url(P_dashboard, url.search))
    ELSE IF NotOnboarded(data) /\ url.pathname # P_onboarding
         THEN ResRedirect(Url(P_onboarding, url.search))
         ELSE ResNext

\* middleware, lines 87-110: the reply once the profile has been read
AfterProfile(url, data) ==
    IF NotOnboarded(data) /\ url.pathname # P_onboarding
    THEN ResRedirect(Url(P_onboarding, url.search))
    ELSE IF startsWithOneOf(url.pathname, APPROVAL_REQUIRED) /\ ~Approved(data)
         THEN ResRedirect(Url(P_dashboard, url.search))
         ELSE ResNext

\* the session cookies that the provider hands to the cookie adapter during
\* the identity lookup: the rotated tokens when the request's access token has
\* expired, the cleared ones when the refresh fails; none without a session
SessionCookie == "sb-auth-token"

ProviderSetAll(expired, s) == IF expired /\ s # None THEN {SessionCookie} ELSE {}

\* middleware, lines 54-71 and the returns of lines 84, 98, 107, 113: setAll
\* writes on res, which is the response returned on the pass-through only;
\* NextResponse.redirect(..) is a new response
Returned(resp, resCookies) == IF resp.kind = "next" THEN resCookies ELSE {}

\* the whole decision of the gate for one request, given what the identity
\* lookup and the profile read answer when they are reached
middleware(url, auth, data) ==
    IF ~RequiresAuth(url.pathname) THEN ResNext
    ELSE IF auth.error \/ auth.user = None THEN LoginRedirect(url)
    ELSE IF startsWithOneOf(url.pathname, ONBOARDING_REQUIRED) THEN AfterProfile(url, data)
    ELSE ResNext

(***************************************************************************)
(* Page-level checks                                                       *)
(***************************************************************************)
\* the component that the router mounts for a pathname
PageOf(pathname) ==
    CASE pathname = P_dashboard -> "dashboard"
      [] pathname = P_onboarding -> "onboarding"
      [] pathname = P_directory -> "directory"
      [] pathname = P_callback -> "callback"
      [] pathname = P_login -> "login"
      [] pathname = P_signup -> "signup"
      [] OTHER -> "other"

\* DashboardPage: if (!user) redirect("/auth/login?redirect=/dashboard")
DashboardAuth(auth) ==
    IF auth.user = None
    THEN ResRedirect(Url(P_login, <<Param("redirect", P_dashboard)>>))
    ELSE ResNext

\* faulty variant: a missing profile is sent to the login page
DashboardProfile_ToLogin(data) ==
    IF data = {} THEN ResRedirect(Url(P_login, <<>>)) ELSE ResNext

\* DashboardPage: if (!profile) redirect("/onboarding")
DashboardProfile(data) ==
    IF data = {} THEN ResRedirect(Url(P_onboarding, <<>>)) ELSE ResNext

\* faulty variant: a status that is not set counts as approved
moderationStatus_DefaultApproved(data) ==
    LET r == CHOOSE x \in data : TRUE
    IN  IF r.moderation_status = "null" THEN "approved" ELSE r.moderation_status

\* DashboardPage, lines 74-75: profile.moderation_status ?? "pending"
moderationStatus(data) ==
    LET r == CHOOSE x \in data : TRUE
    IN  IF r.moderation_status = "null" THEN "pending" ELSE r.moderation_status

\* DashboardPage, line 145: <Button asChild disabled={moderationStatus !== "approved"}>
CtaEnabled(status) == ~(status # "approved")

\* ApprovalBanner: if (moderationStatus === "approved") return null
BannerHidden(status) == status = "approved"

\* the decision of the check that a page runs when it renders; OnboardingPage
\* and DirectoryPage are client components that run none
PageCheck(page, auth, data) ==
    IF page = "dashboard"
    THEN IF DashboardAuth(auth).kind = "redirect" THEN DashboardAuth(auth) ELSE DashboardProfile(data)
    ELSE ResNext

(***************************************************************************)
(* OnboardingPage (unnamed/part_005, part_004): the preview of the chosen  *)
(* avatar file.  preview is the avatarPreview state, live the object URLs  *)
(* created and not yet revoked, cleanup the URL that the cleanup function  *)
(* returned by the last run of the effect will revoke.                     *)
(***************************************************************************)
PvNone == [preview |-> {}, live |-> {}, cleanup |-> {}]

\* URL.createObjectURL: a URL that names no object yet (the least such number)
FreshUrl(p) ==
    LET used == p.live \cup p.preview
    IN  CHOOSE n \in 1..(Cardinality(used) + 1) : n \notin used /\ \A m \in 1..(n - 1) : m \in used

\* faulty variant: the effect returns no cleanup function
runCleanup_Skip(p) == [p EXCEPT !.cleanup = {}]

\* the cleanup returned at line 82, run before the next effect and on unmount
runCleanup(p) == [p EXCEPT !.live = @ \ p.cleanup, !.cleanup = {}]

\* the effect of lines 74-83, run when avatarFile has changed to file
previewEffect(p, file) ==
    LET c == runCleanup(p)
    IN  IF file = {}
        THEN [c EXCEPT !.live = @ \ c.preview, !.preview = {}]
        ELSE [c EXCEPT !.live = @ \cup {FreshUrl(c)}, !.preview = {FreshUrl(c)}, !.cleanup = {FreshUrl(c)}]

\* the page unmounts: the cleanup runs and the component's state is gone
unmount(p) == [runCleanup(p) EXCEPT !.preview = {}]

(***************************************************************************)
(* One navigation of the browser: the gate, then the page                  *)
(***************************************************************************)
NavIdle ==
    [pc |-> "idle", url |-> Url(P_root, <<>>), user |-> None, resp |-> ResNext, by |-> "none",
     getUserCalls |-> 0, profileReads |-> 0, readOk |-> FALSE, page |-> "none", exchanges |-> 0,
     expired |-> FALSE, resCookies |-> {}, sent |-> {}, hops |-> 0, faulted |-> FALSE,
     shownStatus |-> "none"]

\* the page is rendered: the navigation is over, and so is the count of its redirects
Rendered(n) == [n EXCEPT !.pc = "rendered", !.hops = 0, !.faulted = FALSE]

\* a request for url on its way to the gate
Request(url) == [NavIdle EXCEPT !.url = url, !.by = "gate", !.pc = "request"]

\* onboarding form: react-hook-form defaultValues
CURRENT_YEAR == 2026

DefaultForm ==
    [full_name |-> <<>>, degree |-> <<>>, branch |-> <<>>,
     graduation_year |-> [kind |-> "int", whole |-> CURRENT_YEAR],
     linkedin |-> <<>>, avatar_url |-> <<>>, consent_terms |-> FALSE, consent_privacy |-> FALSE]

\* values: the avatar_url among the values that handleSubmit hands to onSubmit
SubIdle == [pc |-> "idle", user |-> None, result |-> "none", prev |-> "none", avatar_url |-> NoAvatar]

\* the browser requests a URL (a link, the address bar)
Navigate(url) ==
    /\ nav.pc \in {"idle", "rendered"}
    /\ nav' = Request(url)
    /\ form' = DefaultForm
    /\ pv' = unmount(pv)
    /\ UNCHANGED <<profiles, session, sub>>
    /\ UNCHANGED <<dir, view, av>>

\* middleware up to its first await (lines 36-74): assets and public routes
\* are passed through, the protected sections go on to the identity lookup
MwStart ==
    /\ nav.pc = "request"
    /\ nav' = [nav EXCEPT !.pc = IF RequiresAuth(nav.url.pathname) THEN "mw_getUser" ELSE "responded",
                          !.resp = ResNext, !.resCookies = {}, !.sent = {}]
    /\ UNCHANGED <<profiles, session, form, sub>>
    /\ UNCHANGED <<dir, view, av, pv>>

\* await supabase.auth.getUser() in the gate, and what follows up to the next await
MwGetUser ==
    /\ nav.pc = "mw_getUser"
    /\ \E a \in AuthOutcomes(session) :
         LET set == ProviderSetAll(nav.expired, session)
         IN  nav' = IF ~(a.error \/ a.user = None) /\ startsWithOneOf(nav.url.pathname, ONBOARDING_REQUIRED)
                    THEN [nav EXCEPT !.faulted = @ \/ Fault(a, session), !.pc = "mw_profile", !.user = a.user, !.getUserCalls = @ + 1,
                                     !.resCookies = set]
                    ELSE [nav EXCEPT !.faulted = @ \/ Fault(a, session), !.pc = "responded", !.user = a.user, !.getUserCalls = @ + 1,
                                     !.resp = middleware(nav.url, a, {}), !.resCookies = set,
                                     !.sent = Returned(middleware(nav.url, a, {}), set)]
    /\ UNCHANGED <<profiles, session, form, sub>>
    /\ UNCHANGED <<dir, view, av, pv>>

\* await the profile read in the gate, and the reply
MwReadProfile ==
    /\ nav.pc = "mw_profile"
    /\ \E d \in ReadOutcomes(profiles, nav.user) :
         nav' = [nav EXCEPT !.faulted = @ \/ d.error, !.pc = "responded", !.profileReads = @ + 1, !.readOk = ~d.error,
                            !.resp = middleware(nav.url, AuthOk(nav.user), d.data),
                            !.sent = Returned(middleware(nav.url, AuthOk(nav.user), d.data), nav.resCookies)]
    /\ UNCHANGED <<profiles, session, form, sub>>
    /\ UNCHANGED <<dir, view, av, pv>>

\* the browser follows a redirect: a new request, through the gate again,
\* with the cookies it holds (still the expired ones when none was sent)
FollowRedirect ==
    /\ nav.pc = "responded"
    /\ nav.resp.kind = "redirect"
    /\ nav.hops < MaxHops
    /\ nav' = [Request(nav.resp.url) EXCEPT !.expired = nav.expired /\ nav.sent = {},
                                            !.hops = nav.hops + 1, !.faulted = nav.faulted]
    /\ form' = DefaultForm
    /\ UNCHANGED <<profiles, session, sub>>
    /\ UNCHANGED <<dir, view, av, pv>>

\* the gate passed the request through: the route's component starts rendering
StartPage ==
    /\ nav.pc = "responded"
    /\ nav.by = "gate"
    /\ nav.resp.kind = "next"
    /\ nav' = [nav EXCEPT !.pc = "page", !.page = PageOf(nav.url.pathname), !.by = "page"]
    /\ UNCHANGED <<profiles, session, form, sub>>
    /\ UNCHANGED <<dir, view, av, pv>>

\* DashboardPage: await getUser
PageGetUser ==
    /\ nav.pc = "page"
    /\ nav.page = "dashboard"
    /\ \E a \in AuthOutcomes(session) :
         nav' = IF DashboardAuth(a).kind = "redirect"
                THEN [nav EXCEPT !.faulted = @ \/ Fault(a, session), !.pc = "responded", !.resp = DashboardAuth(a), !.user = None]
                ELSE [nav EXCEPT !.faulted = @ \/ Fault(a, session), !.pc = "page_profile", !.user = a.user]
    /\ UNCHANGED <<profiles, session, form, sub>>
    /\ UNCHANGED <<dir, view, av, pv>>

\* DashboardPage: await the profile read, then redirect or render
PageReadProfile ==
    /\ nav.pc = "page_profile"
    /\ \E d \in ReadOutcomes(profiles, nav.user) :
         nav' = IF DashboardProfile(d.data).kind = "redirect"
                THEN [nav EXCEPT !.faulted = @ \/ d.error, !.pc = "responded", !.resp = DashboardProfile(d.data), !.readOk = ~d.error]
                ELSE Rendered([nav EXCEPT !.readOk = ~d.error, !.shownStatus = moderationStatus(d.data)])
    /\ UNCHANGED <<profiles, session, form, sub>>
    /\ UNCHANGED <<dir, view, av, pv>>

\* OnboardingPage, DirectoryPage and the public pages render without a check
RenderPage ==
    /\ nav.pc = "page"
    /\ nav.page \notin {"dashboard", "callback"}
    /\ nav' = Rendered(nav)
    /\ UNCHANGED <<profiles, session, form, sub>>
    /\ UNCHANGED <<dir, view, av, pv>>

(***************************************************************************)
(* app/auth/callback/route.ts: GET                                         *)
(***************************************************************************)
Msg(m) == <<m>>

LoginError(m) == ResRedirect(Url(P_login, <<Param("error", m)>>))

\* url.searchParams.get("error_description") || "OAuth failed"
ErrorDescription(search) ==
    LET d == SearchParamsGet(search, "error_description")
    IN  IF d = {} \/ d = {<<>>} THEN Msg("OAuth failed") ELSE CHOOSE m \in d : TRUE

\* a query parameter that is present and not the empty string
Truthy(search, k) == SearchParamsGet(search, k) \notin {{}, {<<>>}}

\* lines 13-30: the provider's error and the missing code, before any call
CbStart ==
    /\ nav.pc = "page"
    /\ nav.page = "callback"
    /\ nav' = IF Truthy(nav.url.search, "error")
              THEN [nav EXCEPT !.pc = "responded", !.resp = LoginError(ErrorDescription(nav.url.search))]
              ELSE IF ~Truthy(nav.url.search, "code")
                   THEN [nav EXCEPT !.pc = "responded", !.resp = LoginError(Msg("Missing OAuth code"))]
                   ELSE [nav EXCEPT !.pc = "cb_exchange"]
    /\ UNCHANGED <<profiles, session, form, sub>>
    /\ UNCHANGED <<dir, view, av, pv>>

\* lines 32-43: exchangeCodeForSession; it answers an error, throws, or opens a session
CbExchange ==
    /\ nav.pc = "cb_exchange"
    /\ \/ /\ \E m \in {Msg("exchange failed"), Msg("Unexpected error")} :
               nav' = [nav EXCEPT !.pc = "responded", !.resp = LoginError(m), !.exchanges = @ + 1]
          /\ UNCHANGED session
       \/ /\ \E u \in Users : session' = u
          /\ nav' = [nav EXCEPT !.pc = "cb_getUser", !.exchanges = @ + 1]
    /\ UNCHANGED <<profiles, form, sub>>
    /\ UNCHANGED <<dir, view, av, pv>>

\* lines 45-58, and the catch branch of lines 75-82 when the call throws
CbGetUser ==
    /\ nav.pc = "cb_getUser"
    /\ \/ \E a \in AuthOutcomes(session) :
            nav' = IF a.error \/ a.user = None
                   THEN [nav EXCEPT !.faulted = @ \/ Fault(a, session), !.pc = "responded", !.resp = LoginError(Msg("No authenticated user"))]
                   ELSE [nav EXCEPT !.faulted = @ \/ Fault(a, session), !.pc = "cb_profile", !.user = a.user]
       \/ nav' = [nav EXCEPT !.faulted = TRUE, !.pc = "responded", !.resp = LoginError(Msg("Unexpected error"))]
    /\ UNCHANGED <<profiles, session, form, sub>>
    /\ UNCHANGED <<dir, view, av, pv>>

\* faulty variant: every resolved user is sent to the dashboard
CbDestination_Dashboard(data) == P_dashboard

\* lines 60-74: const destination = profile ? "/dashboard" : "/onboarding"
CbDestination(data) == IF data # {} THEN P_dashboard ELSE P_onboarding

\* lines 60-74, and the catch branch of lines 75-82 when the read throws
CbProfile ==
    /\ nav.pc = "cb_profile"
    /\ \/ \E d \in ReadOutcomes(profiles, nav.user) :
            nav' = [nav EXCEPT !.faulted = @ \/ d.error, !.pc = "responded", !.profileReads = @ + 1, !.readOk = ~d.error,
                               !.resp = ResRedirect(Url(CbDestination(d.data), <<>>))]
       \/ nav' = [nav EXCEPT !.faulted = TRUE, !.pc = "responded", !.profileReads = @ + 1,
                             !.resp = LoginError(Msg("Unexpected error"))]
    /\ UNCHANGED <<profiles, session, form, sub>>
    /\ UNCHANGED <<dir, view, av, pv>>

(***************************************************************************)
(* Sessions: sign-up page, navbar sign-out, expiry at the provider         *)
(***************************************************************************)
\* SignUpPage.onSubmit: on success router.push("/onboarding"); the provider
\* opens a session at once or waits for the e-mail confirmation
SignUp(u) ==
    /\ nav.pc = "rendered"
    /\ nav.page = "signup"
    /\ session' \in {session, u}
    /\ nav' = Request(Url(P_onboarding, <<>>))
    /\ form' = DefaultForm
    /\ UNCHANGED <<profiles, sub>>
    /\ UNCHANGED <<dir, view, av, pv>>

\* Navbar.signOut: on success window.location.href = "/"; the document is
\* unloaded and the browser releases its object URLs
SignOut ==
    /\ session # None
    /\ session' = None
    /\ nav' = Request(Url(P_root, <<>>))
    /\ form' = DefaultForm
    /\ pv' = PvNone
    /\ UNCHANGED <<profiles, sub>>
    /\ UNCHANGED <<dir, view, av>>

\* the session provider ends the session (expiry)
SessionExpiry ==
    /\ session # None
    /\ session' = None
    /\ UNCHANGED <<profiles, nav, form, sub>>
    /\ UNCHANGED <<dir, view, av, pv>>

(***************************************************************************)
(* The profile store                                                       *)
(***************************************************************************)
Columns == {"id", "onboarded", "moderation_status", "avatar_url"}

\* column defaults of the profiles table
ColumnDefault == [id |-> None, onboarded |-> "false", moderation_status |-> "pending", avatar_url |-> NoAvatar]

\* faulty variant: a plain insert, without the conflict clause on id
Upsert_Insert(store, payload) ==
    store \cup {[c \in Columns |-> IF c \in DOMAIN payload THEN payload[c] ELSE ColumnDefault[c]]}

\* insert ... on conflict (id) do update: the columns of the payload are
\* written, the other columns of an existing row are kept
Upsert(store, payload) ==
    LET old == {r \in store : r.id = payload.id}
        merged(r) == [c \in Columns |-> IF c \in DOMAIN payload THEN payload[c] ELSE r[c]]
    IN  (store \ old) \cup (IF old = {} THEN {merged(ColumnDefault)} ELSE {merged(r) : r \in old})

\* the out-of-band admin sets the moderation status of an existing row
AdminModerate(u, s) ==
    /\ \E r \in profiles : r.id = u /\ r.moderation_status # s
    /\ profiles' = {IF r.id = u THEN [r EXCEPT !.moderation_status = s] ELSE r : r \in profiles}
    /\ UNCHANGED <<session, nav, form, sub>>
    /\ UNCHANGED <<dir, view, av, pv>>

(***************************************************************************)
(* Onboarding form: fields, the submit control, the schema                 *)
(***************************************************************************)
RECURSIVE TrimStart(_)
TrimStart(s) == IF s # <<>> /\ Head(s) = " " THEN TrimStart(Tail(s)) ELSE s

RECURSIVE TrimEnd(_)
TrimEnd(s) == IF s # <<>> /\ s[Len(s)] = " " THEN TrimEnd(SubSeq(s, 1, Len(s) - 1)) ELSE s

\* String.prototype.trim
Trim(s) == TrimEnd(TrimStart(s))

\* Number(text) of the year field, in halves so that 2024.5 is representable
NumberOf(y) ==
    CASE y.kind = "empty" -> [nan |-> FALSE, x2 |-> 0]
      [] y.kind = "int" -> [nan |-> FALSE, x2 |-> 2 * y.whole]
      [] y.kind = "frac" -> [nan |-> FALSE, x2 |-> 2 * y.whole + 1]
      [] y.kind = "dotfrac" -> [nan |-> FALSE, x2 |-> 1]
      [] OTHER -> [nan |-> TRUE, x2 |-> 0]

\* page.tsx lines 98-104
requiredIncomplete(w) ==
    \/ Trim(w.full_name) = <<>>
    \/ Trim(w.degree) = <<>>
    \/ Trim(w.branch) = <<>>
    \/ NumberOf(w.graduation_year).nan
    \/ ~w.consent_terms
    \/ ~w.consent_privacy

\* /^https?:\/\/.+/i on the trimmed text, or the empty text
LinkOk(v) ==
    LET t == Trim(v)
    IN  t = <<>> \/ (Len(t) >= 2 /\ t[1] \in {"http://", "https://", "HTTP://"})

\* z.coerce.number().int().min(1900).max(CURRENT_YEAR + 10)
YearOk(y) ==
    LET n == NumberOf(y)
    IN  ~n.nan /\ n.x2 % 2 = 0 /\ n.x2 >= 2 * 1900 /\ n.x2 <= 2 * (CURRENT_YEAR + 10)

\* faulty variant: the links and the consents are not refined
onboardingSchema_Lenient(v) == YearOk(v.graduation_year)

\* lib/validation/onboarding.ts: onboardingSchema accepts the values
onboardingSchema(v) ==
    /\ Len(Trim(v.full_name)) >= 2
    /\ Len(Trim(v.degree)) >= 1
    /\ Len(Trim(v.branch)) >= 1
    /\ YearOk(v.graduation_year)
    /\ LinkOk(v.linkedin)
    /\ LinkOk(v.avatar_url)
    /\ v.consent_terms
    /\ v.consent_privacy

\* the values a user can enter, field by field
Names == UNION {[1..n -> {" ", "a"}] : n \in 0..MaxNameLen}

YearTexts ==
    {[kind |-> "empty", whole |-> 0], [kind |-> "nan", whole |-> 0]}
    \cup [kind : {"int"}, whole : {1899, 1900, CURRENT_YEAR + 10, CURRENT_YEAR + 11}]
    \cup [kind : {"frac"}, whole : {CURRENT_YEAR}]

Links == {<<>>, <<"x">>, <<"http://">>, <<" ", "HTTP://", "x">>}

FieldInputs ==
    ({"full_name"} \X Names)
    \cup ({"degree"} \X {<<>>, <<"B.Tech">>})
    \cup ({"branch"} \X {<<>>, <<"CSE">>})
    \cup ({"graduation_year"} \X YearTexts)
    \cup ({"linkedin", "avatar_url"} \X Links)
    \cup ({"consent_terms", "consent_privacy"} \X BOOLEAN)

\* the entries that complete the form with valid values, for the lifecycle
FewFieldInputs ==
    {<<"full_name", <<"a", "a">> >>, <<"degree", <<"B.Tech">> >>, <<"branch", <<"CSE">> >>,
     <<"consent_terms", TRUE>>, <<"consent_privacy", TRUE>>}

\* field.onChange of a form control, while the onboarding page is mounted
EditField(f, v) ==
    /\ nav.pc = "rendered"
    /\ nav.page = "onboarding"
    /\ form' = [form EXCEPT ![f] = v]
    /\ UNCHANGED <<profiles, session, nav, sub>>
    /\ UNCHANGED <<dir, view, av, pv>>

\* the submit button: disabled={requiredIncomplete || isSaving}
SubmitEnabled == ~requiredIncomplete(form) /\ sub.pc = "idle"

\* form.handleSubmit(onSubmit): the resolver validates, then onSubmit runs
SubmitClick ==
    /\ nav.pc = "rendered"
    /\ nav.page = "onboarding"
    /\ SubmitEnabled
    /\ sub' = IF onboardingSchema(form)
              THEN [SubIdle EXCEPT !.pc = "getUser", !.avatar_url = form.avatar_url]
              ELSE [SubIdle EXCEPT !.result = "invalid"]
    /\ UNCHANGED <<profiles, session, nav, form>>
    /\ UNCHANGED <<dir, view, av, pv>>

\* onSubmit lines 65-73
SubGetUser ==
    /\ sub.pc = "getUser"
    /\ \E a \in AuthOutcomes(session) :
         sub' = IF a.error \/ a.user = None
                THEN [SubIdle EXCEPT !.result = "noauth"]
                ELSE [sub EXCEPT !.pc = "upsert", !.user = a.user]
    /\ UNCHANGED <<profiles, session, nav, form>>
    /\ UNCHANGED <<dir, view, av, pv>>

\* faulty variant: moderation_status is left to the table
OnboardingPayload_NoStatus(u, avatar_url) == [id |-> u, onboarded |-> "true", avatar_url |-> avatar_url]

\* faulty variant: the flag is written false
OnboardingPayload_NotOnboarded(u, avatar_url) ==
    [id |-> u, onboarded |-> "false", moderation_status |-> "pending", avatar_url |-> avatar_url]

\* faulty variant: the form writes the approval itself
OnboardingPayload_Approved(u, avatar_url) ==
    [id |-> u, onboarded |-> "true", moderation_status |-> "approved", avatar_url |-> avatar_url]

\* the row written by onSubmit, lines 75-85: { id, ...values, onboarded: true, moderation_status: "pending" }
OnboardingPayload(u, avatar_url) ==
    [id |-> u, onboarded |-> "true", moderation_status |-> "pending", avatar_url |-> avatar_url]

\* faulty variant: the error branch does not return and the handler goes on to router.push
onUpsertError_Push(n) == Request(Url(P_dashboard, <<>>))

\* onSubmit lines 87-90: if (error) { toast.error(error.message); return; } leaves the location alone
onUpsertError(n) == n

StatusOf(store, u) ==
    IF \E r \in store : r.id = u THEN (CHOOSE r \in store : r.id = u).moderation_status ELSE "norow"

\* onSubmit lines 75-93: the upsert fails (toast) or succeeds (router.push("/dashboard"))
SubUpsert ==
    /\ sub.pc = "upsert"
    /\ \/ /\ sub' = [SubIdle EXCEPT !.result = "error"]
          /\ nav' = onUpsertError(nav)
          /\ UNCHANGED <<profiles, form, pv>>
       \/ /\ profiles' = Upsert(profiles, OnboardingPayload(sub.user, sub.avatar_url))
          /\ sub' = [SubIdle EXCEPT !.result = "ok", !.user = sub.user, !.prev = StatusOf(profiles, sub.user)]
          /\ nav' = Request(Url(P_dashboard, <<>>))
          /\ form' = DefaultForm
          /\ pv' = unmount(pv)
    /\ UNCHANGED session
    /\ UNCHANGED <<dir, view, av>>

(***************************************************************************)
(* OnboardingPage with the avatar upload (unnamed/part_005; part_004 has   *)
(* the same uploadAvatarOrReturnUrl and onSubmit)                          *)
(***************************************************************************)
\* file.size > 5 * 1024 * 1024
MaxAvatarBytes == 5 * 1024 * 1024

\* the files that the file input can hand over: accept="image/*" is a hint
\* to the picker, so a file of another type can arrive
Files == [image : BOOLEAN, size : {MaxAvatarBytes, MaxAvatarBytes + 1}]

OldAvatar == <<"https://", "old">>

NewAvatar == <<"https://", "new">>

\* avatarFile and closure (the avatarFile that the running onSubmit sees) are
\* sets of at most one file; avatar_url is values.avatar_url; log lists the
\* remote calls and the notifications of the submission in their order;
\* prev is the avatar reference stored when the submission started
AvIdle ==
    [file |-> {}, isUploading |-> FALSE, pc |-> "idle", closure |-> {}, user |-> None,
     avatar_url |-> NoAvatar, log |-> <<>>, outcome |-> "none", prev |-> {}, result |-> "none"]

AvRendered == nav.pc = "rendered" /\ nav.page = "onboarding"

\* file input onChange, lines 452-455: the first file chosen, or null
ChooseAvatar(fs) ==
    /\ AvRendered
    /\ fs # av.file
    /\ av' = [av EXCEPT !.file = fs]
    /\ pv' = previewEffect(pv, fs)
    /\ UNCHANGED <<profiles, session, nav, form, sub, dir, view>>

\* handleRemoveAvatar, lines 211-214; the button shows with a preview or a stored URL
RemoveAvatar ==
    /\ AvRendered
    /\ av.file # {} \/ form.avatar_url # NoAvatar
    /\ av' = [av EXCEPT !.file = {}]
    /\ form' = [form EXCEPT !.avatar_url = NoAvatar]
    /\ pv' = IF av.file # {} THEN previewEffect(pv, {}) ELSE pv
    /\ UNCHANGED <<profiles, session, nav, sub, dir, view>>

\* const disabled = requiredIncomplete || isSaving || isUploading
AvSubmitEnabled == ~requiredIncomplete(form) /\ av.pc = "idle" /\ ~av.isUploading

AvatarOf(store, u) == {r.avatar_url : r \in {x \in store : x.id = u}}

\* form.handleSubmit(onSubmit) of the variant
AvSubmitClick ==
    /\ AvRendered
    /\ AvSubmitEnabled
    /\ av' = IF onboardingSchema(form)
             THEN [AvIdle EXCEPT !.file = av.file, !.pc = "getUser", !.closure = av.file,
                                 !.avatar_url = form.avatar_url, !.log = <<"getUser">>,
                                 !.prev = AvatarOf(profiles, session)]
             ELSE [AvIdle EXCEPT !.file = av.file, !.result = "invalid"]
    /\ UNCHANGED <<profiles, session, nav, form, sub, dir, view, pv>>

\* uploadAvatarOrReturnUrl lines 123-130: the type, then the size
AvatarCheck(file) ==
    CASE ~file.image -> "not_image"
      [] file.size > MaxAvatarBytes -> "too_large"
      [] OTHER -> "accepted"

\* onSubmit goes on to the upsert, lines 178-187
ToUpsert(a) == [a EXCEPT !.pc = "upsert", !.log = Append(@, "upsert")]

\* onSubmit lines 172-176 with uploadAvatarOrReturnUrl up to its await: no
\* file, a file turned down with a notification, or the upload started
AfterGetUser(a) ==
    IF a.closure = {} THEN ToUpsert([a EXCEPT !.outcome = "nofile"])
    ELSE LET c == AvatarCheck(CHOOSE f \in a.closure : TRUE)
         IN  IF c = "accepted"
             THEN [a EXCEPT !.isUploading = TRUE, !.pc = "upload", !.outcome = c, !.log = Append(@, "upload")]
             ELSE ToUpsert([a EXCEPT !.outcome = c, !.log = Append(@, "toast_" \o c)])

\* onSubmit lines 162-170, and what follows up to the next await
AvGetUser ==
    /\ av.pc = "getUser"
    /\ \E a \in AuthOutcomes(session) :
         av' = IF a.error \/ a.user = None
               THEN [av EXCEPT !.pc = "idle", !.result = "noauth", !.log = Append(@, "toast_login")]
               ELSE AfterGetUser([av EXCEPT !.user = a.user])
    /\ UNCHANGED <<profiles, session, nav, form, sub, dir, view, pv>>

\* faulty variant: a failed upload ends the submission
uploadFailed_Abort(a) ==
    [a EXCEPT !.pc = "idle", !.result = "error", !.outcome = "failed", !.isUploading = FALSE,
              !.log = Append(@, "toast_upload")]

\* catch and finally of uploadAvatarOrReturnUrl, lines 151-158, then the upsert
uploadFailed(a) ==
    ToUpsert([a EXCEPT !.outcome = "failed", !.isUploading = FALSE, !.log = Append(@, "toast_upload")])

\* lines 145-150 and 155-158, then onSubmit line 175 and the upsert
uploadDone(a, url) ==
    ToUpsert([a EXCEPT !.outcome = "uploaded", !.isUploading = FALSE, !.avatar_url = url])

\* the storage upload answers: an error or an exception, or the stored path
AvUpload ==
    /\ av.pc = "upload"
    /\ av' \in {uploadFailed(av), uploadDone(av, NewAvatar)}
    /\ UNCHANGED <<profiles, session, nav, form, sub, dir, view, pv>>

\* onSubmit lines 178-195: the upsert fails (toast) or succeeds (router.push("/dashboard"))
AvUpsert ==
    /\ av.pc = "upsert"
    /\ \/ /\ av' = [av EXCEPT !.pc = "idle", !.result = "error", !.log = Append(@, "toast_upsert")]
          /\ nav' = onUpsertError(nav)
          /\ UNCHANGED <<profiles, form, pv>>
       \/ /\ profiles' = Upsert(profiles, OnboardingPayload(av.user, av.avatar_url))
          /\ av' = [av EXCEPT !.pc = "idle", !.result = "ok", !.file = {}, !.log = Append(@, "toast_success")]
          /\ nav' = Request(Url(P_dashboard, <<>>))
          /\ form' = DefaultForm
          /\ pv' = unmount(pv)
    /\ UNCHANGED <<session, sub, dir, view>>

(***************************************************************************)
(* DirectoryPage: filters, pagination and fetchDirectory, in the two       *)
(* variants of the source (app/directory/page.tsx and unnamed/part_001)    *)
(***************************************************************************)
PAGE_SIZE == 20

\* the rows of the public_directory view: view is their number and row i is
\* DirRow(i); all but the first graduated in the same year
DirRow(i) ==
    [id |-> i,
     graduation_year |-> IF i = 1 THEN 2021 ELSE 2020,
     degree |-> IF i % 2 = 1 THEN "B.Tech" ELSE "M.Tech",
     branch |-> "CSE",
     text |-> <<"a">>]

\* folding of letter case, as ilike compares
Fold(s) == [i \in DOMAIN s |-> IF s[i] = "A" THEN "a" ELSE s[i]]

\* ilike %t%: t occurs in text, whatever the case
ILike(text, t) ==
    \E i \in 1..(Len(text) - Len(t) + 1) : SubSeq(Fold(text), i, i + Len(t) - 1) = Fold(t)

\* Number.parseInt(text, 10) of the year field: the leading digits, or NaN
ParseInt(y) ==
    CASE y.kind = "int" -> [nan |-> FALSE, x2 |-> 2 * y.whole]
      [] y.kind = "frac" -> [nan |-> FALSE, x2 |-> 2 * y.whole]
      [] OTHER -> [nan |-> TRUE, x2 |-> 0]

DirVariants == {"page", "part_001"}

\* part_001 lines 90-99: a year text without leading digits ends fetchDirectory
\* with a message; page.tsx has no such branch
YearRejected(variant, year) ==
    variant = "part_001" /\ year.kind # "empty" /\ ParseInt(year).nan

\* the graduation_year clause of the query, as a set of at most one number (in
\* halves): page.tsx lines 79-82 use Number(year), part_001 lines 90-93 parseInt
YearClause(variant, year) ==
    IF year.kind = "empty" THEN {}
    ELSE LET n == IF variant = "part_001" THEN ParseInt(year) ELSE NumberOf(year)
         IN  IF n.nan THEN {} ELSE {n.x2}

\* faulty variant: the window of page p starts one row late
RangeFrom_OffByOne(p) == (p - 1) * PAGE_SIZE + 1

\* const from = (page - 1) * PAGE_SIZE
RangeFrom(p) == (p - 1) * PAGE_SIZE

\* const to = from + PAGE_SIZE - 1
RangeTo(p) == RangeFrom(p) + PAGE_SIZE - 1

CeilDiv(n, d) == (n + d - 1) \div d

Max(a, b) == IF a >= b THEN a ELSE b

Min(a, b) == IF a <= b THEN a ELSE b

\* Math.max(1, Math.ceil(count / PAGE_SIZE))
totalPages(count) == Max(1, CeilDiv(count, PAGE_SIZE))

\* the query that fetchDirectory builds from the state d, lines 65-84
QueryOf(d) ==
    [q |-> Trim(d.q), degree |-> d.degree, branch |-> d.branch,
     year |-> YearClause(d.variant, d.year), page |-> d.page,
     from |-> RangeFrom(d.page), to |-> RangeTo(d.page)]

\* the rows of the view that satisfy the clauses of query r
Matches(r, row) ==
    /\ r.q = <<>> \/ ILike(row.text, r.q)
    /\ r.degree = "any" \/ row.degree = r.degree
    /\ r.branch = "any" \/ row.branch = r.branch
    /\ \A y \in r.year : 2 * row.graduation_year = y

Matching(r, n) == {i \in 1..n : Matches(r, DirRow(i))}

\* order("graduation_year", { ascending: false }): rows of the same year come
\* in an order that the store chooses; two of its choices are modelled
TieOrders == {"asc", "desc"}

\* the graduation years of the rows, latest first
YearsDescending == <<2021, 2020>>

\* the rows of m (rows of a view of n rows), latest year first, the rows of
\* one year by rising or by falling id
OrderBy(m, n, tie) ==
    LET ids == IF tie = "asc" THEN [k \in 1..n |-> k] ELSE [k \in 1..n |-> n + 1 - k]
        OfFirst(i) == i \in m /\ DirRow(i).graduation_year = YearsDescending[1]
        OfSecond(i) == i \in m /\ DirRow(i).graduation_year = YearsDescending[2]
    IN  SelectSeq(ids, OfFirst) \o SelectSeq(ids, OfSecond)

\* range(from, to): the rows at the offsets from..to, as far as there are rows
Range(s, from, to) == SubSeq(s, from + 1, Min(to + 1, Len(s)))

\* data and count of a query that succeeds on a view of n rows
Answer(r, n, tie) ==
    LET m == Matching(r, n)
    IN  [rows |-> Range(OrderBy(m, n, tie), r.from, r.to), count |-> Cardinality(m)]

\* useState initial values; inflight holds the queries awaited, toasted the
\* notification raised by the last step, last the handler that ran last,
\* shown the query and the view size behind the rows on display, cap the
\* number of queries that this run lets be awaited at once (the page itself
\* sets no limit)
DirInitial(variant) ==
    [variant |-> variant, q |-> <<>>, degree |-> "any", branch |-> "any",
     year |-> [kind |-> "empty", whole |-> 0], page |-> 1,
     rows |-> <<>>, count |-> 0, loading |-> FALSE,
     toasted |-> "none", inflight |-> {}, last |-> "none", shown |-> {},
     cap |-> MaxInFlight]

\* faulty variant: the catch branch clears the rows and the count
fetchFailed_Cleared(d, r) ==
    [d EXCEPT !.rows = <<>>, !.count = 0, !.toasted = "error", !.loading = FALSE, !.inflight = @ \ {r}]

\* catch and finally of fetchDirectory, lines 92-96
fetchFailed(d, r) ==
    [d EXCEPT !.toasted = "error", !.loading = FALSE, !.inflight = @ \ {r}]

\* fetchDirectory up to its await
fetchDirectory(d) ==
    IF YearRejected(d.variant, d.year)
    THEN [d EXCEPT !.toasted = "validation", !.loading = FALSE]
    ELSE [d EXCEPT !.toasted = "none", !.loading = TRUE, !.inflight = @ \cup {QueryOf(d)}]

DirRendered == nav.pc = "rendered" /\ nav.page = "directory"

\* the page is mounted and its first effect has run
DirReady == DirRendered /\ dir.last # "none"

CanFetch == Cardinality(dir.inflight) < dir.cap

\* useEffect on mount, lines 100-103
DirMount ==
    /\ DirRendered
    /\ dir.last = "none"
    /\ dir' = fetchDirectory([dir EXCEPT !.last = "mount"])
    /\ UNCHANGED <<profiles, session, nav, form, sub, view, av, pv>>

\* faulty variant: the page number is kept when the search text changes
setQ_KeepPage(d, v) == [d EXCEPT !.q = v]

\* search input onChange, lines 125-128
setQ(d, v) == [d EXCEPT !.q = v, !.page = 1]

SetQ(v) ==
    /\ DirReady
    /\ CanFetch
    /\ v # dir.q
    /\ dir' = fetchDirectory([setQ(dir, v) EXCEPT !.last = "setQ"])
    /\ UNCHANGED <<profiles, session, nav, form, sub, view, av, pv>>

\* degree select onValueChange, lines 135-138
SetDegree(v) ==
    /\ DirReady
    /\ CanFetch
    /\ v # dir.degree
    /\ dir' = fetchDirectory([dir EXCEPT !.degree = v, !.page = 1, !.last = "setDegree"])
    /\ UNCHANGED <<profiles, session, nav, form, sub, view, av, pv>>

\* branch select onValueChange, lines 156-159
SetBranch(v) ==
    /\ DirReady
    /\ CanFetch
    /\ v # dir.branch
    /\ dir' = fetchDirectory([dir EXCEPT !.branch = v, !.page = 1, !.last = "setBranch"])
    /\ UNCHANGED <<profiles, session, nav, form, sub, view, av, pv>>

\* year input onChange, lines 180-183
SetYear(v) ==
    /\ DirReady
    /\ CanFetch
    /\ v # dir.year
    /\ dir' = fetchDirectory([dir EXCEPT !.year = v, !.page = 1, !.last = "setYear"])
    /\ UNCHANGED <<profiles, session, nav, form, sub, view, av, pv>>

\* resetFilters, lines 105-111
resetFilters(d) ==
    [d EXCEPT !.q = <<>>, !.degree = "any", !.branch = "any", !.year = [kind |-> "empty", whole |-> 0], !.page = 1]

\* the Reset button (disabled while loading); the effect runs when a value changed
ResetClick ==
    /\ DirReady
    /\ ~dir.loading
    /\ dir' = IF resetFilters(dir) = dir
              THEN [dir EXCEPT !.last = "reset", !.toasted = "none"]
              ELSE fetchDirectory([resetFilters(dir) EXCEPT !.last = "reset"])
    /\ UNCHANGED <<profiles, session, nav, form, sub, view, av, pv>>

\* the Apply Filters button (disabled while loading), lines 187-189
ApplyClick ==
    /\ DirReady
    /\ ~dir.loading
    /\ dir' = fetchDirectory([dir EXCEPT !.last = "apply"])
    /\ UNCHANGED <<profiles, session, nav, form, sub, view, av, pv>>

\* Prev, lines 251-257: shown when totalPages > 1, disabled on page 1 and while loading
PrevClick ==
    /\ DirReady
    /\ totalPages(dir.count) > 1
    /\ dir.page > 1
    /\ ~dir.loading
    /\ dir' = fetchDirectory([dir EXCEPT !.page = Max(1, @ - 1), !.last = "prev"])
    /\ UNCHANGED <<profiles, session, nav, form, sub, view, av, pv>>

\* Next, lines 261-267
NextClick ==
    /\ DirReady
    /\ totalPages(dir.count) > 1
    /\ dir.page < totalPages(dir.count)
    /\ ~dir.loading
    /\ dir' = fetchDirectory([dir EXCEPT !.page = Min(totalPages(dir.count), @ + 1), !.last = "next"])
    /\ UNCHANGED <<profiles, session, nav, form, sub, view, av, pv>>

\* the awaited query answers data and count, lines 86-91 and 94-96
FetchOk ==
    /\ DirRendered
    /\ \E r \in dir.inflight, tie \in TieOrders :
         LET ans == Answer(r, view, tie)
         IN  dir' = [dir EXCEPT !.rows = ans.rows, !.count = ans.count,
                            !.loading = FALSE, !.toasted = "none", !.inflight = @ \ {r},
                            !.last = "fetchOk", !.shown = {[req |-> r, view |-> view]}]
    /\ UNCHANGED <<profiles, session, nav, form, sub, view, av, pv>>

\* the awaited query answers an error or throws, lines 88 and 92-96
FetchFail ==
    /\ DirRendered
    /\ \E r \in dir.inflight : dir' = [fetchFailed(dir, r) EXCEPT !.last = "fetchFail"]
    /\ UNCHANGED <<profiles, session, nav, form, sub, view, av, pv>>

\* a profile enters the public view (an approval by the admin)
ViewWrite ==
    /\ view < MaxRows
    /\ view' = view + 1
    /\ UNCHANGED <<profiles, session, nav, form, sub, dir, av, pv>>

\* a profile leaves the public view (its owner submits the onboarding form
\* again and is pending, or the admin withdraws the approval)
ViewRemove ==
    /\ view > 0
    /\ view' = view - 1
    /\ UNCHANGED <<profiles, session, nav, form, sub, dir, av, pv>>

(***************************************************************************)
(* Specifications                                                          *)
(***************************************************************************)
\* the URLs that the application's links and redirects lead to
NavUrls ==
    {Url(p, <<>>) : p \in {P_root, P_signup, P_dashboard, P_onboarding, P_directory}}
    \cup {Url(P_callback, <<Param("code", <<"x">>)>>)}

AllUrls == {Url(p, q) : p \in Pathnames, q \in Searches}

GateSteps ==
    \/ MwStart
    \/ MwGetUser
    \/ MwReadProfile
    \/ FollowRedirect
    \/ StartPage
    \/ PageGetUser
    \/ PageReadProfile
    \/ RenderPage

Init ==
    /\ profiles \in Stores(Users)
    /\ session = None
    /\ nav = NavIdle
    /\ form = DefaultForm
    /\ sub = SubIdle
    /\ dir = DirInitial("page")
    /\ view = 0
    /\ av = AvIdle
    /\ pv = PvNone

Next ==
    \/ \E url \in NavUrls : Navigate(url)
    \/ GateSteps
    \/ CbStart
    \/ CbExchange
    \/ CbGetUser
    \/ CbProfile
    \/ \E u \in Users : SignUp(u)
    \/ SignOut
    \/ SessionExpiry
    \/ \E u \in Users, s \in {"pending", "approved", "rejected"} : AdminModerate(u, s)
    \/ \E e \in FewFieldInputs : EditField(e[1], e[2])
    \/ SubmitClick
    \/ SubGetUser
    \/ SubUpsert

Spec == Init /\ [][Next]_vars

\* one request for every URL, session and stored profile: the gate, the
\* redirects it issues and the pages, with the session and the store at rest
InitGate ==
    /\ profiles \in Stores(GateUsers)
    /\ session \in {None} \cup GateUsers
    /\ nav \in {Request(url) : url \in AllUrls}
    /\ form = DefaultForm
    /\ sub = SubIdle
    /\ dir = DirInitial("page")
    /\ view = 0
    /\ av = AvIdle
    /\ pv = PvNone

NextGate ==
    \/ GateSteps
    \/ CbStart

SpecGate == InitGate /\ [][NextGate]_vars

\* one request for a protected or public page, with or without a query
\* string, whose access-token cookie has or has not expired
CookieUrls ==
    {Url(p, q) : p \in {P_root, P_dashboard, P_onboarding, P_directory},
                 q \in {<<>>, <<Param("ref", <<"x">>)>>}}

InitCookies ==
    /\ profiles \in Stores(GateUsers)
    /\ session \in {None} \cup GateUsers
    /\ nav \in {[Request(url) EXCEPT !.expired = e] : url \in CookieUrls, e \in BOOLEAN}
    /\ form = DefaultForm
    /\ sub = SubIdle
    /\ dir = DirInitial("page")
    /\ view = 0
    /\ av = AvIdle
    /\ pv = PvNone

NextCookies == GateSteps

SpecCookies == InitCookies /\ [][NextCookies]_vars

\* the onboarding form over every entry, for one signed-in user
InitForm ==
    /\ profiles = {}
    /\ session \in GateUsers
    /\ nav = [Request(Url(P_onboarding, <<>>)) EXCEPT !.pc = "rendered", !.page = "onboarding", !.by = "page"]
    /\ form = DefaultForm
    /\ sub = SubIdle
    /\ dir = DirInitial("page")
    /\ view = 0
    /\ av = AvIdle
    /\ pv = PvNone

NextForm ==
    \/ \E e \in FieldInputs : EditField(e[1], e[2])
    \/ SubmitClick
    \/ SubGetUser
    \/ SubUpsert

SpecForm == InitForm /\ [][NextForm]_vars

\* the onboarding form of the avatar variant, for one signed-in user with or
\* without a stored profile and avatar reference
AvatarStores ==
    {{}} \cup {{[id |-> u, onboarded |-> "true", moderation_status |-> m, avatar_url |-> a]} :
                 u \in GateUsers, m \in {"pending", "approved"}, a \in {NoAvatar, OldAvatar}}

InitAvatar ==
    /\ profiles \in AvatarStores
    /\ session \in GateUsers
    /\ nav = [Request(Url(P_onboarding, <<>>)) EXCEPT !.pc = "rendered", !.page = "onboarding", !.by = "page"]
    /\ form = DefaultForm
    /\ sub = SubIdle
    /\ dir = DirInitial("page")
    /\ view = 0
    /\ av = AvIdle
    /\ pv = PvNone

NextAvatar ==
    \/ \E e \in FewFieldInputs : EditField(e[1], e[2])
    \/ \E fs \in {{}} \cup {{f} : f \in Files} : ChooseAvatar(fs)
    \/ RemoveAvatar
    \/ AvSubmitClick
    \/ AvGetUser
    \/ AvUpload
    \/ AvUpsert

SpecAvatar == InitAvatar /\ [][NextAvatar]_vars

\* the submissions of the two variants of the onboarding form, for one user
\* whose session the provider may end while the form is open
InitSubmit ==
    /\ profiles \in AvatarStores
    /\ session \in GateUsers
    /\ nav = [Request(Url(P_onboarding, <<>>)) EXCEPT !.pc = "rendered", !.page = "onboarding", !.by = "page"]
    /\ form = DefaultForm
    /\ sub = SubIdle
    /\ dir = DirInitial("page")
    /\ view = 0
    /\ av = AvIdle
    /\ pv = PvNone

NextSubmit ==
    \/ \E e \in FewFieldInputs : EditField(e[1], e[2])
    \/ \E fs \in {{}, {[image |-> TRUE, size |-> MaxAvatarBytes]}} : ChooseAvatar(fs)
    \/ SubmitClick
    \/ SubGetUser
    \/ SubUpsert
    \/ AvSubmitClick
    \/ AvGetUser
    \/ AvUpload
    \/ AvUpsert
    \/ SessionExpiry

SpecSubmit == InitSubmit /\ [][NextSubmit]_vars

\* the avatar variant of the form with the ways of leaving it: the
\* successful submission and a link of the navbar
NextPreview ==
    \/ NextAvatar
    \/ Navigate(Url(P_dashboard, <<>>))

SpecPreview == InitAvatar /\ [][NextPreview]_vars

\* the query strings with which the provider comes back to /auth/callback
CallbackSearches ==
    {<<>>,
     <<Param("code", <<"x">>)>>,
     <<Param("code", <<>>)>>,
     <<Param("error", <<"x">>)>>,
     <<Param("error", <<"x">>), Param("error_description", <<"denied">>)>>,
     <<Param("error", <<"x">>), Param("code", <<"x">>)>>,
     <<Param("error", <<>>), Param("code", <<"x">>)>>}

\* one return from the provider for every query string, session and stored
\* profile: the gate, the callback route and the redirects that follow
InitCallback ==
    /\ profiles \in Stores(GateUsers)
    /\ session \in {None} \cup GateUsers
    /\ nav \in {Request(Url(P_callback, q)) : q \in CallbackSearches}
    /\ form = DefaultForm
    /\ sub = SubIdle
    /\ dir = DirInitial("page")
    /\ view = 0
    /\ av = AvIdle
    /\ pv = PvNone

NextCallback ==
    \/ GateSteps
    \/ CbStart
    \/ CbExchange
    \/ CbGetUser
    \/ CbProfile

SpecCallback == InitCallback /\ [][NextCallback]_vars

\* one navigation to each page of the application and to the callback route,
\* for every session and stored profile, the store at rest; every step that
\* can be taken is taken in the end
ChainUrls ==
    {Url(p, q) : p \in {P_root, P_login, P_signup, P_dashboard, P_onboarding, P_directory},
                 q \in {<<>>, <<Param("redirect", <<"/", "x">>)>>}}
    \cup {Url(P_callback, q) : q \in {<<Param("code", <<"x">>)>>, <<Param("error", <<"x">>)>>}}

InitChain ==
    /\ profiles \in Stores(GateUsers)
    /\ session \in {None} \cup GateUsers
    /\ nav \in {Request(url) : url \in ChainUrls}
    /\ form = DefaultForm
    /\ sub = SubIdle
    /\ dir = DirInitial("page")
    /\ view = 0
    /\ av = AvIdle
    /\ pv = PvNone

NextChain ==
    \/ GateSteps
    \/ CbStart
    \/ CbExchange
    \/ CbGetUser
    \/ CbProfile

SpecChain == InitChain /\ [][NextChain]_vars /\ WF_vars(NextChain)

\* the values of the directory filters that a visitor sets
DirTexts == {<<>>, <<" ", "A">>}

Degrees == {"any", "B.Tech"}

Branches == {"any", "CSE"}

DirYears ==
    {[kind |-> "empty", whole |-> 0], [kind |-> "int", whole |-> 2020],
     [kind |-> "frac", whole |-> 2020], [kind |-> "dotfrac", whole |-> 0]}

DirNav == [Request(Url(P_directory, <<>>)) EXCEPT !.pc = "rendered", !.page = "directory", !.by = "page"]

\* the directory page over a view of two pages: every filter, Reset, Apply, Prev and Next
InitDir ==
    /\ profiles = {}
    /\ session \in GateUsers
    /\ nav = DirNav
    /\ form = DefaultForm
    /\ sub = SubIdle
    /\ dir = DirInitial("page")
    /\ view = PAGE_SIZE + 2
    /\ av = AvIdle
    /\ pv = PvNone

NextDir ==
    \/ DirMount
    \/ \E v \in DirTexts : SetQ(v)
    \/ \E v \in Degrees : SetDegree(v)
    \/ \E v \in Branches : SetBranch(v)
    \/ \E v \in {y \in DirYears : y.kind \in {"empty", "int"}} : SetYear(v)
    \/ ResetClick
    \/ ApplyClick
    \/ PrevClick
    \/ NextClick
    \/ FetchOk
    \/ FetchFail

SpecDir == InitDir /\ [][NextDir]_vars

\* the directory page over views of every size, with the filters at rest:
\* pagination, repeated queries, failed queries, writes to the view
InitPages ==
    /\ profiles = {}
    /\ session \in GateUsers
    /\ nav = DirNav
    /\ form = DefaultForm
    /\ sub = SubIdle
    /\ dir \in {DirInitial(v) : v \in DirVariants}
    /\ view \in 0..MaxRows
    /\ av = AvIdle
    /\ pv = PvNone

NextPages ==
    \/ DirMount
    \/ ApplyClick
    \/ PrevClick
    \/ NextClick
    \/ FetchOk
    \/ FetchFail
    \/ ViewWrite
    \/ ViewRemove

SpecPages == InitPages /\ [][NextPages]_vars

\* the year filter of the directory in both variants of fetchDirectory
InitYear ==
    /\ profiles = {}
    /\ session \in GateUsers
    /\ nav = DirNav
    /\ form = DefaultForm
    /\ sub = SubIdle
    /\ dir \in {DirInitial(v) : v \in DirVariants}
    /\ view = PAGE_SIZE + 2
    /\ av = AvIdle
    /\ pv = PvNone

NextYear ==
    \/ DirMount
    \/ \E v \in DirYears : SetYear(v)
    \/ ApplyClick
    \/ FetchOk
    \/ FetchFail

SpecYear == InitYear /\ [][NextYear]_vars

\* the directory page with one more query awaited at once: a filter is
\* changed while an earlier query is awaited, and every query succeeds
InitRace ==
    /\ profiles = {}
    /\ session \in GateUsers
    /\ nav = DirNav
    /\ form = DefaultForm
    /\ sub = SubIdle
    /\ dir \in {[DirInitial(v) EXCEPT !.cap = MaxInFlight + 1] : v \in DirVariants}
    /\ view = PAGE_SIZE + 2
    /\ av = AvIdle
    /\ pv = PvNone

NextRace ==
    \/ DirMount
    \/ \E v \in DirTexts : SetQ(v)
    \/ \E v \in Degrees : SetDegree(v)
    \/ NextClick
    \/ FetchOk

SpecRace == InitRace /\ [][NextRace]_vars

(***************************************************************************)
(* Properties of the gate                                                  *)
(***************************************************************************)
GateReplied == nav.by = "gate" /\ nav.pc = "responded"

RowsOf(u) == {r \in profiles : r.id = u}

\* at or below base, at a segment boundary
Under(pathname, base) ==
    \/ pathname = base
    \/ /\ Len(pathname) > Len(base)
       /\ \A i \in 1..Len(base) : pathname[i] = base[i]
       /\ pathname[Len(base) + 1] = "/"

\* C1: a request for one of the public routes /, /auth/login, /auth/signup,
\* /auth/callback is passed through by the gate, which performs no identity
\* lookup and no profile read for it, whatever the session is.
C1_PublicPassesWithoutLookup ==
    (nav.by = "gate" /\ nav.url.pathname \in {<<"/">>, <<"/", "auth/login">>, <<"/", "auth/signup">>, <<"/", "auth/callback">>})
        => /\ nav.pc \in {"request", "responded"}
           /\ nav.resp.kind = "next"
           /\ nav.getUserCalls = 0
           /\ nav.profileReads = 0

C1_Witness ==
    /\ GateReplied
    /\ nav.url.pathname = P_callback
    /\ session # None
    /\ nav.resp.kind = "next"

\* C2: for a request under /dashboard, /onboarding or /directory whose
\* identity lookup yields an error or no user, the gate redirects to
\* /auth/login with the parameter redirect equal to the requested pathname,
\* and reads no profile.
C2_UnauthenticatedToLogin ==
    (GateReplied /\ nav.user = None
       /\ \E b \in {<<"/", "dashboard">>, <<"/", "onboarding">>, <<"/", "directory">>} : Under(nav.url.pathname, b))
        => /\ nav.getUserCalls = 1
           /\ nav.resp.kind = "redirect"
           /\ nav.resp.url.pathname = <<"/", "auth/login">>
           /\ SearchParamsGet(nav.resp.url.search, "redirect") = {nav.url.pathname}
           /\ nav.profileReads = 0

C2_Witness ==
    /\ GateReplied
    /\ nav.url.pathname = <<"/", "dashboard", "/">>
    /\ nav.url.search = <<Param("redirect", <<"/", "x">>)>>
    /\ session # None
    /\ nav.user = None
    /\ nav.resp.kind = "redirect"

\* C3: for an authenticated user whose profile is not onboarded (the flag is
\* false or null, or there is no row), a request under /dashboard or
\* /directory is redirected to /onboarding; a request for /onboarding is
\* passed through whatever the flag and the moderation status are.
C3_NotOnboardedToOnboarding ==
    (GateReplied /\ nav.user # None)
        => /\ ( /\ \E b \in {<<"/", "dashboard">>, <<"/", "directory">>} : Under(nav.url.pathname, b)
                /\ \A r \in RowsOf(nav.user) : r.onboarded \in {"false", "null"} )
              => (nav.resp.kind = "redirect" /\ nav.resp.url.pathname = <<"/", "onboarding">>)
           /\ nav.url.pathname = <<"/", "onboarding">> => nav.resp.kind = "next"

C3_Witness ==
    /\ GateReplied
    /\ nav.user # None
    /\ nav.url.pathname = <<"/", "directory", "/">>
    /\ nav.readOk
    /\ \E r \in RowsOf(nav.user) : r.onboarded = "null" /\ r.moderation_status = "approved"
    /\ nav.resp.url.pathname = P_onboarding

\* C4 as claimed: for every profile of an authenticated user, a moderation
\* status other than approved sends /directory to /dashboard, and approved
\* lets /directory through.
C4_AsClaimed ==
    (GateReplied /\ nav.user # None /\ nav.url.pathname = <<"/", "directory">>)
        => \A r \in RowsOf(nav.user) :
             IF r.moderation_status = "approved"
             THEN nav.resp.kind = "next"
             ELSE nav.resp.kind = "redirect" /\ nav.resp.url.pathname = <<"/", "dashboard">>

\* C4: for every profile of an authenticated user that the gate reads and
\* finds onboarded, a moderation status other than approved (pending,
\* rejected, null) sends /directory to /dashboard, and approved lets
\* /directory through to the page, which renders without a further check.
C4_OnboardedApprovalGate ==
    /\ (GateReplied /\ nav.user # None /\ nav.readOk /\ nav.url.pathname = <<"/", "directory">>)
         => \A r \in RowsOf(nav.user) :
              r.onboarded = "true"
                => IF r.moderation_status = "approved"
                   THEN nav.resp.kind = "next"
                   ELSE nav.resp.kind = "redirect" /\ nav.resp.url.pathname = <<"/", "dashboard">>
    /\ (nav.by = "page" /\ nav.page = "directory") => nav.pc \in {"page", "rendered"}

C4_Witness ==
    /\ nav.pc = "rendered"
    /\ nav.page = "directory"
    /\ \E r \in RowsOf(nav.user) : r.onboarded = "true" /\ r.moderation_status = "approved"

\* C7: for each gated page and each session and profile state, the check the
\* page runs when it renders decides as the gate decides for that path:
\* allow or redirect, and to the same pathname.
C7_PageChecksAgreeWithGate ==
    \A p \in {P_dashboard, P_onboarding, P_directory} :
      \A a \in AuthOutcomes(session) :
        \A d \in (IF a.user = None THEN {ReadFail} ELSE ReadOutcomes(profiles, a.user)) :
          LET g == middleware(Url(p, <<>>), a, d.data)
              c == PageCheck(PageOf(p), a, d.data)
          IN  g.kind = c.kind /\ g.url.pathname = c.url.pathname

(***************************************************************************)
(* Properties of the lifecycle of a profile                                *)
(***************************************************************************)
Onboarded(store, u) == \E r \in store : r.id = u /\ r.onboarded = "true"

\* C5 as claimed: whatever writes to the profile row are interleaved with a
\* gate evaluation for /directory, the directory page renders only for a user
\* whose stored moderation status is approved at the moment it renders.
C5_DirectoryRendersOnlyWhileApproved ==
    [][(nav.pc = "page" /\ nav.page = "directory" /\ nav'.pc = "rendered")
         => StatusOf(profiles, nav.user) = "approved"]_vars

\* C6: a page that requires onboarding (/dashboard, /directory) is rendered
\* only for a user whom the gate, or the page, has authenticated and whose
\* stored profile has onboarded = true.
C6_RenderedImpliesOnboarded ==
    (nav.pc = "rendered" /\ nav.page \in {"dashboard", "directory"})
        => nav.user \in Users /\ Onboarded(profiles, nav.user)

C6_Witness ==
    /\ nav.pc = "rendered"
    /\ nav.page = "directory"
    /\ Onboarded(profiles, nav.user)
    /\ sub.result = "ok"

C9_OnboardedIsStable ==
    [][\A u \in Users : Onboarded(profiles, u) => Onboarded(profiles', u)]_vars

C9_Witness ==
    /\ sub.result = "ok"
    /\ sub.prev = "rejected"
    /\ session = None
    /\ Onboarded(profiles, sub.user)

(***************************************************************************)
(* Properties of the onboarding form                                       *)
(***************************************************************************)
\* the text as stored: trimmed, the scheme in lower case
Scheme(tok) == IF tok = "HTTP://" THEN "http://" ELSE tok

C10_LinkRule(v) ==
    Trim(v) = <<>> \/ Scheme(Head(Trim(v))) \in {"http://", "https://"}

C10_YearRule(y) ==
    /\ y.kind = "int"
    /\ y.whole >= 1900
    /\ y.whole <= CURRENT_YEAR + 10

C10_RulesHold(w) ==
    /\ Trim(w.full_name) # <<>>
    /\ w.degree # <<>>
    /\ w.branch # <<>>
    /\ C10_YearRule(w.graduation_year)
    /\ C10_LinkRule(w.linkedin)
    /\ C10_LinkRule(w.avatar_url)
    /\ w.consent_terms
    /\ w.consent_privacy

OversizeImageSubmitted ==
    /\ av.outcome # "none"
    /\ \E f \in av.closure : f.image /\ f.size > MaxAvatarBytes

InLog(e) == \E i \in DOMAIN av.log : av.log[i] = e

\* the size-limit notification comes before every remote call of the submission
C11_RejectedBeforeAnyCall ==
    OversizeImageSubmitted =>
        /\ av.outcome = "too_large"
        /\ ~InLog("upload")
        /\ av.log[1] = "toast_too_large"

\* the avatar reference stored before the submission is stored after it
C11_StoredAvatarKept ==
    (OversizeImageSubmitted /\ av.result \in {"ok", "error"} /\ av.prev # {})
        => AvatarOf(profiles, av.user) = av.prev

\* C11: an avatar file of more than 5 MB is turned down with the size-limit
\* notification before any remote call is made (no storage upload and no
\* other call precedes the notification), and when the submission has ended
\* the avatar reference that the profile held before it is still stored.
C11_OversizeRejectedFirstAvatarKept == C11_RejectedBeforeAnyCall /\ C11_StoredAvatarKept

AvatarFailed == av.outcome \in {"not_image", "too_large", "failed"}

\* C12: when the upload fails, or the file is turned down as not an image or
\* as too large, the user is notified, the submission goes on to the profile
\* upsert with no new avatar URL among its values, and the upload-in-progress
\* flag is false again.
C12_AvatarFailureDoesNotAbort ==
    AvatarFailed =>
        /\ InLog("toast_not_image") \/ InLog("toast_too_large") \/ InLog("toast_upload")
        /\ InLog("upsert")
        /\ av.avatar_url # NewAvatar
        /\ ~av.isUploading

C12_Witness ==
    /\ av.outcome = "failed"
    /\ av.result = "ok"
    /\ \E r \in profiles : r.id = av.user /\ r.avatar_url = NoAvatar

(***************************************************************************)
(* Properties of the directory                                             *)
(***************************************************************************)
Filters(d) == <<d.q, d.degree, d.branch, d.year>>

\* C13: every change of the search text, the degree, the branch or the year,
\* and Reset, sets the page number to 1; the page number changes to another
\* value only by Prev and Next, and these two leave every filter as it is.
C13_FilterChangeResetsPage ==
    [][/\ Filters(dir') # Filters(dir) => dir'.page = 1
       /\ (dir'.last = "reset" /\ dir' # dir) => dir'.page = 1
       /\ dir'.page # dir.page =>
              \/ dir'.page = 1
              \/ dir'.last \in {"prev", "next"} /\ Filters(dir') = Filters(dir)
       /\ (dir'.last \in {"prev", "next"} /\ dir' # dir) => Filters(dir') = Filters(dir)]_vars

\* the rows on display were fetched for page 2, then the search text changed
C13_Witness ==
    /\ dir.last = "setQ"
    /\ dir.page = 1
    /\ \E s \in dir.shown : s.req.page = 2

\* the window of rows that a query asks for, as the claim words it
C14_Window(r) == r.from = (r.page - 1) * 20 /\ r.to = (r.page - 1) * 20 + 19

\* the rows on display, when they are those of the last page of count rows
C14_LastPage(r, count, rows) ==
    r.page = CeilDiv(count, 20) =>
        Len(rows) = IF count > 0 /\ count % 20 = 0 THEN 20 ELSE count % 20

\* the claim as worded, for every count from 0 on: violated by the count 0,
\* for which the page count is 1
C14_AsClaimed ==
    /\ \A r \in dir.inflight : C14_Window(r)
    /\ \A s \in dir.shown :
         /\ totalPages(dir.count) = CeilDiv(dir.count, 20)
         /\ C14_Window(s.req)
         /\ C14_LastPage(s.req, dir.count, dir.rows)

\* C14: for a result count N of at least 1 the page count is ceil(N/20), and
\* for N = 0 it is 1 with no row on display; the query for page p asks for the
\* rows (p-1)*20 through (p-1)*20+19; the last page holds N mod 20 rows, or
\* 20 when N is a positive multiple of 20.
C14_Pagination ==
    /\ \A r \in dir.inflight : C14_Window(r)
    /\ \A s \in dir.shown :
         /\ dir.count >= 1 => totalPages(dir.count) = CeilDiv(dir.count, 20)
         /\ dir.count = 0 => totalPages(dir.count) = 1 /\ dir.rows = <<>>
         /\ C14_Window(s.req)
         /\ C14_LastPage(s.req, dir.count, dir.rows)

\* the third and last page of 41 rows is on display
C14_Witness ==
    /\ dir.count = 41
    /\ \E s \in dir.shown : s.req.page = 3
    /\ Len(dir.rows) = 1

\* C15: when a directory query fails, an error notification is raised, the
\* rows on display and the count stay those of the last query that succeeded,
\* and the loading flag is false when the failed fetch has ended.
C15_FailedFetchKeepsLastGood ==
    [][(dir'.last = "fetchFail" /\ dir' # dir) =>
           /\ dir'.toasted = "error"
           /\ dir'.rows = dir.rows
           /\ dir'.count = dir.count
           /\ dir'.shown = dir.shown
           /\ ~dir'.loading]_vars

\* a query has failed with the rows of an earlier query on display
C15_Witness ==
    /\ dir.last = "fetchFail"
    /\ dir.toasted = "error"
    /\ dir.rows # <<>>
    /\ dir.count > 0
    /\ ~dir.loading

\* a year text that is not empty and is not an integer
YearNotInteger(y) == y.kind \notin {"empty", "int"}

\* the handlers that run fetchDirectory
FetchingHandlers == {"mount", "setQ", "setDegree", "setBranch", "setYear", "reset", "apply", "prev", "next"}

\* C16: when fetchDirectory runs with a year filter that is not empty and not
\* an integer, no query is issued, a validation message is raised, and the
\* rows and the count stay as they are.
C16_InvalidYearBlocksQuery ==
    [][(dir'.last \in FetchingHandlers /\ dir' # dir /\ YearNotInteger(dir'.year)) =>
           /\ dir'.inflight = dir.inflight
           /\ dir'.toasted = "validation"
           /\ dir'.rows = dir.rows
           /\ dir'.count = dir.count]_vars

(***************************************************************************)
(* Properties of the OAuth callback                                        *)
(***************************************************************************)
CallbackReplied == nav.page = "callback" /\ nav.pc = "responded"

\* the provider reported an error, or handed over no code
NoCodeToExchange == Truthy(nav.url.search, "error") \/ ~Truthy(nav.url.search, "code")

\* C17: the callback route answers with a redirect in every case: to
\* /auth/login with an error parameter when the provider reports an error,
\* the code is missing, the exchange fails, no user is resolved or a call
\* throws; else to /dashboard when the profile read finds a row of the user,
\* and to /onboarding when it finds none or fails.  With a provider error or
\* without a code no exchange is attempted.
C17_CallbackAlwaysRedirects ==
    CallbackReplied =>
        /\ nav.resp.kind = "redirect"
        /\ nav.resp.url.pathname \in {P_login, P_dashboard, P_onboarding}
        /\ nav.resp.url.pathname = P_login <=> SearchParamsGet(nav.resp.url.search, "error") # {}
        /\ NoCodeToExchange <=> nav.exchanges = 0
        /\ NoCodeToExchange => nav.resp.url.pathname = P_login /\ nav.user = None /\ nav.profileReads = 0
        /\ Truthy(nav.url.search, "error") => nav.resp = LoginError(ErrorDescription(nav.url.search))
        /\ nav.resp = LoginError(Msg("Missing OAuth code")) <=>
               ~Truthy(nav.url.search, "error") /\ ~Truthy(nav.url.search, "code")
        /\ nav.user = None => nav.resp.url.pathname = P_login
        /\ nav.resp.url.pathname = P_dashboard <=>
               nav.user # None /\ nav.readOk /\ RowsOf(nav.user) # {}
        /\ nav.resp.url.pathname = P_onboarding <=>
               nav.user # None /\ nav.profileReads = 1 /\ nav.resp.url.search = <<>>
                   /\ (~nav.readOk \/ RowsOf(nav.user) = {})
                   /\ nav.resp # LoginError(Msg("Unexpected error"))

\* a user without a profile row comes back from the provider and is sent to /onboarding
C17_Witness ==
    /\ CallbackReplied
    /\ nav.exchanges = 1
    /\ nav.user # None
    /\ nav.readOk
    /\ RowsOf(nav.user) = {}
    /\ nav.resp = ResRedirect(Url(P_onboarding, <<>>))

(***************************************************************************)
(* Properties of the profile store under submissions                       *)
(***************************************************************************)
OtherRows(store, u) == {r \in store : r.id # u}

\* C18: the store holds at most one row for each user identity; a submission
\* that succeeds writes the store in one step, which leaves exactly one row
\* with the user's id and every row of the other users as it was, so that a
\* resubmission replaces the user's row; no other step of a submission
\* changes the store.
C18_OneRowPerUser ==
    [][/\ \A r1, r2 \in profiles' : r1.id = r2.id => r1 = r2
       /\ (sub.pc = "upsert" /\ sub'.result = "ok") =>
              /\ Cardinality({r \in profiles' : r.id = sub.user}) = 1
              /\ OtherRows(profiles', sub.user) = OtherRows(profiles, sub.user)
       /\ (sub' # sub /\ profiles' # profiles) => sub.pc = "upsert" /\ sub'.result = "ok"]_vars

\* both users have submitted, the second over a row that an admin had approved
C18_Witness ==
    /\ sub.result = "ok"
    /\ sub.prev = "approved"
    /\ Cardinality(profiles) = 2
    /\ \A u \in Users : Cardinality(RowsOf(u)) = 1

\* the result set: the rows of an answer, whatever their order
RowSet(rows) == {rows[i] : i \in DOMAIN rows}

\* C19: a query that is issued again with the same search text, degree,
\* branch, year and page, with no write to the view since the answer on
\* display, is answered with the same set of rows and the same count.
C19_SameQuerySameAnswer ==
    [][(dir'.last = "fetchOk" /\ dir' # dir /\ dir.shown # {} /\ dir'.shown = dir.shown) =>
           /\ RowSet(dir'.rows) = RowSet(dir.rows)
           /\ dir'.count = dir.count]_vars

(***************************************************************************)
(* Order of the checks of the gate                                         *)
(***************************************************************************)
\* C20: in one evaluation of the gate the identity lookup is awaited before
\* the profile read, and the onboarding check decides before the approval
\* check: a request under /directory without a resolved user is redirected
\* to /auth/login with no profile read made, and a request under /directory
\* of a user whose profile is neither onboarded nor approved is redirected to
\* /onboarding, not to /dashboard.
C20_ChecksInOrder ==
    nav.by = "gate" =>
        /\ nav.profileReads <= nav.getUserCalls
        /\ nav.getUserCalls <= 1
        /\ (nav.pc = "mw_profile" \/ nav.profileReads > 0) => nav.getUserCalls = 1 /\ nav.user # None
        /\ (GateReplied /\ Under(nav.url.pathname, P_directory) /\ nav.user = None) =>
               /\ nav.getUserCalls = 1
               /\ nav.profileReads = 0
               /\ nav.resp = ResRedirect(Url(P_login, SearchParamsSet(nav.url.search, "redirect", nav.url.pathname)))
        /\ (GateReplied /\ Under(nav.url.pathname, P_directory) /\ nav.user # None
              /\ \A r \in RowsOf(nav.user) : r.onboarded # "true" /\ r.moderation_status # "approved") =>
               /\ nav.profileReads = 1
               /\ nav.resp.kind = "redirect"
               /\ nav.resp.url.pathname = P_onboarding

\* the profile read of the gate found a row that is neither onboarded nor approved
C20_Witness ==
    /\ GateReplied
    /\ nav.url.pathname = P_directory
    /\ nav.user # None
    /\ nav.readOk
    /\ \E r \in RowsOf(nav.user) : r.onboarded = "false" /\ r.moderation_status = "pending"
    /\ nav.resp.url.pathname = P_onboarding
    /\ nav.profileReads = 1

(***************************************************************************)
(* C21                                                                     *)
(***************************************************************************)
\* the profile read that nav has just awaited failed, or found no row
ReadGaveNoProfile == ~nav'.readOk \/ RowsOf(nav.user) = {}

ToOnboarding(n) ==
    n.pc = "responded" /\ n.resp.kind = "redirect" /\ n.resp.url.pathname = P_onboarding

\* C21: when the profile read of the gate (reached only for the paths that
\* require onboarding) or of the dashboard page fails or finds no row, the
\* reply is a redirect to /onboarding: the page is not rendered and the read
\* error is not surfaced.
C21_ReadFailureToOnboarding ==
    [][/\ (nav.pc = "mw_profile" /\ nav'.pc # "mw_profile" /\ ReadGaveNoProfile)
            => ToOnboarding(nav') /\ nav'.by = "gate"
       /\ (nav.pc = "page_profile" /\ nav'.pc # "page_profile" /\ ReadGaveNoProfile)
            => ToOnboarding(nav') /\ nav'.by = "page"]_vars

\* the gate's read of an onboarded, approved profile failed on /directory
C21_Witness ==
    /\ GateReplied
    /\ nav.url.pathname = P_directory
    /\ nav.profileReads = 1
    /\ ~nav.readOk
    /\ \E r \in RowsOf(nav.user) : r.onboarded = "true" /\ r.moderation_status = "approved"
    /\ ToOnboarding(nav)

(***************************************************************************)
(* C22                                                                     *)
(***************************************************************************)
\* C22: every redirect issued by the gate carries at most one query
\* parameter: none on the redirects to /onboarding and /dashboard, only
\* `redirect` on the redirect to /auth/login, whatever the query string of
\* the request was.
C22_GateRedirectQuery ==
    (GateReplied /\ nav.resp.kind = "redirect") =>
        LET to == nav.resp.url
        IN  /\ Len(to.search) <= 1
            /\ to.pathname \in {P_onboarding, P_dashboard} => to.search = <<>>
            /\ to.pathname = P_login => \A i \in 1..Len(to.search) : to.search[i].k = "redirect"

(***************************************************************************)
(* C23                                                                     *)
(***************************************************************************)
\* C23: the response of a gate invocation that performed the identity lookup
\* carries every session cookie that the provider set during that lookup, on
\* the pass-through and on each redirect alike.
C23_ResponseCarriesSetCookies ==
    (GateReplied /\ nav.getUserCalls > 0) => nav.sent = nav.resCookies

(***************************************************************************)
(* C24                                                                     *)
(***************************************************************************)
StoredRow(store, u) == {r \in store : r.id = u}

\* one step of a submission s (the record of either variant of the form):
\* the failed identity lookup and the failed upsert end it with the error
\* notification, the store and the location as they were; only the
\* successful upsert writes the row and navigates to /dashboard
SubmissionStep(s, t) ==
    /\ s.pc = "getUser" =>
          /\ profiles' = profiles /\ nav' = nav
          /\ \/ t.pc = "idle" /\ t.result = "noauth"
             \/ t.pc \in {"upsert", "upload"} /\ t.user \in Users /\ t.result = "none"
    /\ s.pc = "upload" => profiles' = profiles /\ nav' = nav /\ t.pc = "upsert"
    /\ s.pc = "upsert" =>
          /\ t.pc = "idle"
          /\ \/ t.result = "error" /\ profiles' = profiles /\ nav' = nav
             \/ /\ t.result = "ok"
                /\ StoredRow(profiles', s.user) # {}
                /\ nav' = Request(Url(P_dashboard, <<>>))

\* C24: when no authenticated user is resolved, or the upsert returns an
\* error, the submission ends with an error notification, the stored profile
\* and the location unchanged; the navigation to /dashboard happens only
\* with a successful upsert.
C24_FailedSubmissionStops ==
    [][/\ sub' # sub => SubmissionStep(sub, sub')
       /\ av.pc # av'.pc => SubmissionStep(av, av')
       /\ nav' # nav => \/ sub.pc = "upsert" /\ sub'.result = "ok"
                        \/ av.pc = "upsert" /\ av'.result = "ok"]_vars

\* both ways of stopping have happened: the plain form's upsert returned an
\* error, the variant's submission found no user; nothing was written
C24_Witness ==
    /\ sub.pc = "idle" /\ sub.result = "error"
    /\ av.pc = "idle" /\ av.result = "noauth"
    /\ nav.pc = "rendered" /\ nav.page = "onboarding"
    /\ profiles = {}

(***************************************************************************)
(* C25                                                                     *)
(***************************************************************************)
\* a step of the external admin: no part of the application moves
AdminStep == UNCHANGED <<session, nav, form, sub, dir, view, av, pv>>

\* C25: the application's operations write only pending to
\* moderation_status: a step that changes the store is either the admin's,
\* or the upsert of the onboarding form, whose written row is pending; the
\* gate, the pages and the OAuth callback write nothing.
C25_ApplicationWritesOnlyPending ==
    [][profiles' # profiles =>
          \/ AdminStep
          \/ /\ sub.pc = "upsert" \/ av.pc = "upsert"
             /\ \A r \in profiles' \ profiles : r.moderation_status = "pending"]_vars

\* the form has been submitted again by an approved user: the row is pending
C25_Witness ==
    /\ sub.result = "ok"
    /\ sub.prev = "approved"
    /\ StatusOf(profiles, sub.user) = "pending"

(***************************************************************************)
(* C26                                                                     *)
(***************************************************************************)
\* C26: over every sequence of choosing an avatar file, replacing it,
\* removing it and leaving the form, each preview URL created is revoked
\* when it is replaced or removed or when the form unmounts: at most one is
\* live at any time, it is the one shown, and none is live without a chosen
\* file or after the unmount.
C26_PreviewUrlsRevoked ==
    /\ Cardinality(pv.live) <= 1
    /\ pv.live \subseteq pv.preview
    /\ av.file = {} => pv.live = {}
    /\ ~AvRendered => pv.live = {}

\* a second file has replaced the first: the second URL is live, the first is not
C26_Witness ==
    /\ AvRendered
    /\ av.file # {}
    /\ pv.live = {2}
    /\ pv.preview = {2}

(***************************************************************************)
(* C27                                                                     *)
(***************************************************************************)
\* the redirects issued so far in the navigation at hand
RedirectsIssued ==
    nav.hops + (IF nav.pc = "responded" /\ nav.resp.kind = "redirect" THEN 1 ELSE 0)

\* C27: with the session and the store at rest and every lookup answering
\* what they hold, a navigation to any page or to the callback route meets
\* at most two redirects of the gate, the pages and the callback, and ends
\* with a page rendered: the redirects do not cycle.
C27_AtMostTwoRedirects ==
    /\ [](~nav.faulted => RedirectsIssued <= 2)
    /\ <>(nav.pc = "rendered")

\* the callback sent a user whose profile is not onboarded to /dashboard, and
\* the gate sent them on to /onboarding, which is about to render
C27_Witness ==
    /\ nav.pc = "page"
    /\ nav.page = "onboarding"
    /\ nav.hops = 2
    /\ ~nav.faulted

(***************************************************************************)
(* C28                                                                     *)
(***************************************************************************)
\* C28: when the queries started by the filter and page changes have all
\* answered, in whatever order, the rows and the count on display are an
\* answer to the query of the current filters and page.
C28_DisplayMatchesCurrentQuery ==
    (DirReady /\ dir.inflight = {} /\ dir.last = "fetchOk") =>
        \E tie \in TieOrders :
            LET ans == Answer(QueryOf(dir), view, tie)
            IN  dir.rows = ans.rows /\ dir.count = ans.count

(***************************************************************************)
(* C29                                                                     *)
(***************************************************************************)
\* C29: in every state of the directory page the page number lies between 1
\* and totalPages = max(1, ceil(count / 20)), whatever filter changes, Prev
\* and Next clicks, re-fetches and answers (with a smaller count) came before.
C29_PageWithinTotalPages ==
    DirRendered => 1 <= dir.page /\ dir.page <= totalPages(dir.count)

(***************************************************************************)
(* C30                                                                     *)
(***************************************************************************)
\* the gate lets the signed-in owner of the profile data through to /directory
GatePassesDirectory(u, data) == middleware(Url(P_directory, <<>>), AuthOk(u), data).kind = "next"

====
